---- MODULE Spec2Model ----
(***************************************************************************)
(* Scaffold materialization engine: the domain-graph validators of         *)
(* app/models.py (DomainMapping) and the scaffold_apply.py run             *)
(* (validate_inputs, require_approval, apply_plan, main).                  *)
(***************************************************************************)
EXTENDS Integers, Sequences, FiniteSets, TLC

(***************************************************************************)
(* Bounds of the domain-graph inputs.                                      *)
(***************************************************************************)
MaxDomains == 3
MaxDeps == 2

NameSeq == <<"a", "b", "c">>
Names == {NameSeq[i] : i \in 1..Len(NameSeq)}

VARIABLES v, verdict

graphVars == <<v, verdict>>

(***************************************************************************)
(* State of a scaffold_apply.py run and of the file system it works on.    *)
(*   pc        position of main(): "idle" between runs                      *)
(*   args      the run's inputs: the three documents, --approved-by,        *)
(*             --dry-run                                                    *)
(*   emitted   what the run printed: nothing yet, the error object, the     *)
(*             result document or the traceback of an uncaught exception   *)
(*   fs        files: absolute path |-> content                            *)
(*   dirs      directories                                                 *)
(*   xbits     files whose executable permission bits are set              *)
(*   templates the template source tree TEMPLATES_DIR: path |-> text       *)
(*   now       the clock read by datetime.now()                            *)
(*   variables the template environment of the run                         *)
(*   files_created, templates_applied, domains_created                     *)
(*             the result accumulators of apply_plan                       *)
(*   start     the file system as it was when the run started             *)
(*   rerun     the run repeats the previous successful run's inputs with    *)
(*             no edit in between                                          *)
(*   written   the run has written its --output document                    *)
(*   runs, edits  counters of runs started and of changes made by hand      *)
(*   readonly  the project tree has been made read-only (chmod -R a-w)     *)
(***************************************************************************)
VARIABLES pc, args, emitted, fs, dirs, xbits, templates, now, variables,
          files_created, templates_applied, domains_created,
          start, rerun, written, runs, edits, readonly

runVars == <<pc, args, emitted, fs, dirs, xbits, templates, now, variables,
             files_created, templates_applied, domains_created,
             start, rerun, written, runs, edits, readonly>>

(***************************************************************************)
(* State of one call of substitute_variables(content, variables).          *)
(*   phase        position in the function: "idle" when it is not called   *)
(*   input        the template text the call was given                     *)
(*   bindings     the environment the call was given                       *)
(*   buffer       the text as rewritten so far                             *)
(*   interpolated the text as it was after the {{NAME}} pass               *)
(*   passes       iterations of the conditional loop done so far, counted  *)
(*                up to MaxPasses                                          *)
(***************************************************************************)
VARIABLES phase, input, bindings, buffer, interpolated, passes

substVars == <<phase, input, bindings, buffer, interpolated, passes>>

(***************************************************************************)
(* State of a caller of build_template_variables(plan, prd, erd).          *)
(*   request   the plan the calls are given                                *)
(*   clock     the clock the calls read                                    *)
(*   returned  the environments the calls returned, in the order of calls  *)
(***************************************************************************)
VARIABLES request, clock, returned

envVars == <<request, clock, returned>>

vars == <<v, verdict, pc, args, emitted, fs, dirs, xbits, templates, now,
          variables, files_created, templates_applied, domains_created,
          start, rerun, written, runs, edits, readonly,
          phase, input, bindings, buffer, interpolated, passes,
          request, clock, returned>>

(***************************************************************************)
(* Input domain lists: DomainSchema records reduced to the two fields the  *)
(* DomainMapping validators read.                                          *)
(***************************************************************************)
ListOf(S) == SelectSeq(NameSeq, LAMBDA x : x \in S)
DepLists == {ListOf(S) : S \in {T \in SUBSET Names : Cardinality(T) <= MaxDeps}}
DomainSchema == [name : Names, dependencies : DepLists]
DomainLists == UNION {[1..n -> DomainSchema] : n \in 1..MaxDomains}

Range(s) == {s[i] : i \in 1..Len(s)}

(***************************************************************************)
(* DomainMapping.validate_unique_domain_names                              *)
(***************************************************************************)
NamesOf(domains) == [i \in 1..Len(domains) |-> domains[i].name]

validate_unique_domain_names_skipped(domains) == TRUE

validate_unique_domain_names(domains) ==
    Len(NamesOf(domains)) = Cardinality(Range(NamesOf(domains)))

(***************************************************************************)
(* DomainMapping.validate_no_circular_dependencies                         *)
(* deps = {d.name: d.dependencies for d in v}: a later entry of the same   *)
(* name replaces an earlier one; deps.get(node, []) is empty for a name    *)
(* that no domain declares.                                                *)
(***************************************************************************)
DepsGet(domains, node) ==
    LET idx == {i \in 1..Len(domains) : domains[i].name = node}
    IN  IF idx = {} THEN <<>>
        ELSE domains[CHOOSE i \in idx : \A j \in idx : j <= i].dependencies

RECURSIVE has_cycle(_, _, _, _), has_cycle_loop(_, _, _, _, _)

\* the loop body with "elif neighbor in rec_stack" widened to any visited neighbor
has_cycle_loop_any_visited(domains, node, i, visited, rec_stack) ==
    LET ns == DepsGet(domains, node)
    IN  IF i > Len(ns)
        THEN [found |-> FALSE, visited |-> visited, rec_stack |-> rec_stack \ {node}]
        ELSE IF ns[i] \notin visited
             THEN LET r == has_cycle(domains, ns[i], visited, rec_stack)
                  IN  IF r.found THEN r
                      ELSE has_cycle_loop(domains, node, i + 1, r.visited, r.rec_stack)
             ELSE [found |-> TRUE, visited |-> visited, rec_stack |-> rec_stack]

\* for neighbor in deps.get(node, []): ... ; rec_stack.remove(node); return False
has_cycle_loop(domains, node, i, visited, rec_stack) ==
    LET ns == DepsGet(domains, node)
    IN  IF i > Len(ns)
        THEN [found |-> FALSE, visited |-> visited, rec_stack |-> rec_stack \ {node}]
        ELSE IF ns[i] \notin visited
             THEN LET r == has_cycle(domains, ns[i], visited, rec_stack)
                  IN  IF r.found THEN r
                      ELSE has_cycle_loop(domains, node, i + 1, r.visited, r.rec_stack)
             ELSE IF ns[i] \in rec_stack
                  THEN [found |-> TRUE, visited |-> visited, rec_stack |-> rec_stack]
                  ELSE has_cycle_loop(domains, node, i + 1, visited, rec_stack)

has_cycle(domains, node, visited, rec_stack) ==
    has_cycle_loop(domains, node, 1, visited \cup {node}, rec_stack \cup {node})

RECURSIVE validate_no_circular_dependencies_from(_, _, _)

\* for domain in v: if domain.name not in visited: if has_cycle(...): raise
validate_no_circular_dependencies_from(domains, i, visited) ==
    IF i > Len(domains) THEN [ok |-> TRUE, error |-> "", domain |-> ""]
    ELSE IF domains[i].name \in visited
         THEN validate_no_circular_dependencies_from(domains, i + 1, visited)
         ELSE LET r == has_cycle(domains, domains[i].name, visited, {})
              IN  IF r.found
                  THEN [ok |-> FALSE, error |-> "circular", domain |-> domains[i].name]
                  ELSE validate_no_circular_dependencies_from(domains, i + 1, r.visited)

validate_no_circular_dependencies(domains) ==
    validate_no_circular_dependencies_from(domains, 1, {})

(***************************************************************************)
(* DomainMapping(domains=...): the two validators of the field run in      *)
(* declaration order and the first failure ends validation.                *)
(***************************************************************************)
DomainMapping(domains) ==
    IF ~validate_unique_domain_names(domains)
    THEN [ok |-> FALSE, error |-> "unique", domain |-> ""]
    ELSE validate_no_circular_dependencies(domains)

Pending == [ok |-> FALSE, error |-> "pending", domain |-> ""]

(***************************************************************************)
(* Path strings.  A string is a sequence of atoms (pieces of text that the *)
(* code never splits); "/" is the separator atom.  An absolute path of the *)
(* file system is a sequence of segments, each segment a sequence of atoms.*)
(***************************************************************************)
Sep == "/"

RECURSIVE lstrip(_), rstrip(_), Split(_, _, _), ResolveFrom(_, _)

\* str.lstrip('/') and str.rstrip('/')
lstrip(s) == IF s # <<>> /\ Head(s) = Sep THEN lstrip(Tail(s)) ELSE s

rstrip(s) == IF s # <<>> /\ s[Len(s)] = Sep THEN rstrip(SubSeq(s, 1, Len(s) - 1)) ELSE s

\* str.startswith
startswith(s, prefix) == Len(prefix) <= Len(s) /\ SubSeq(s, 1, Len(prefix)) = prefix

\* the segments of a path string; empty segments (doubled or trailing
\* separators) are dropped as pathlib drops them
Split(s, cur, acc) ==
    IF s = <<>> THEN (IF cur = <<>> THEN acc ELSE Append(acc, cur))
    ELSE IF Head(s) = Sep
         THEN Split(Tail(s), <<>>, IF cur = <<>> THEN acc ELSE Append(acc, cur))
         ELSE Split(Tail(s), Append(cur, Head(s)), acc)

\* Path.resolve(): "." is dropped, ".." removes the last segment
ResolveFrom(base, segs) ==
    IF segs = <<>> THEN base
    ELSE IF Head(segs) = <<".">> THEN ResolveFrom(base, Tail(segs))
    ELSE IF Head(segs) = <<"..">>
         THEN ResolveFrom(IF base = <<>> THEN base ELSE SubSeq(base, 1, Len(base) - 1),
                          Tail(segs))
         ELSE ResolveFrom(Append(base, Head(segs)), Tail(segs))

\* (root / s).resolve(): an absolute s replaces root
ResolveUnder(root, s) ==
    IF s # <<>> /\ Head(s) = Sep THEN ResolveFrom(<<>>, Split(s, <<>>, <<>>))
    ELSE ResolveFrom(root, Split(s, <<>>, <<>>))

\* root / "a" / "b" for plain one-atom segments
Join(root, names) == root \o [i \in 1..Len(names) |-> <<names[i]>>]

Parent(path) == SubSeq(path, 1, Len(path) - 1)

Prefixes(path) == {SubSeq(path, 1, k) : k \in 1..Len(path)}

IsUnder(root, path) == Len(path) >= Len(root) /\ SubSeq(path, 1, Len(root)) = root

project_root == <<<<"proj">>>>

(***************************************************************************)
(* The file system as a value: files, directories, executable bits, the    *)
(* read-only flag of the project tree and the exception raised so far (""  *)
(* for none).  After an exception the remaining operations of the run are  *)
(* not executed.                                                           *)
(***************************************************************************)
Put(f, k, val) == [x \in (DOMAIN f) \cup {k} |-> IF x = k THEN val ELSE f[x]]

Raise(w, e) == [w EXCEPT !.exc = e]

\* Path.exists()
exists(w, path) == path \in DOMAIN w.fs \/ path \in w.dirs \/ path = <<>>

\* ensure_directory: path.mkdir(parents=True, exist_ok=True)
ensure_directory(w, path) ==
    IF w.exc # "" THEN w
    ELSE IF path \in DOMAIN w.fs THEN Raise(w, "FileExistsError")
    ELSE IF \E q \in Prefixes(path) : q \in DOMAIN w.fs THEN Raise(w, "NotADirectoryError")
    ELSE IF w.readonly /\ ~(Prefixes(path) \subseteq w.dirs) THEN Raise(w, "PermissionError")
    ELSE [w EXCEPT !.dirs = @ \cup Prefixes(path)]

\* Path.write_text: creates the file or replaces its content
write_text(w, path, content) ==
    IF w.exc # "" THEN w
    ELSE IF path \in w.dirs \/ path = <<>> THEN Raise(w, "IsADirectoryError")
    ELSE IF \E q \in Prefixes(Parent(path)) : q \in DOMAIN w.fs
         THEN Raise(w, "NotADirectoryError")
    ELSE IF ~exists(w, Parent(path)) THEN Raise(w, "FileNotFoundError")
    ELSE IF w.readonly THEN Raise(w, "PermissionError")
    ELSE [w EXCEPT !.fs = Put(@, path, content)]

\* target.chmod(mode | S_IXUSR | S_IXGRP | S_IXOTH)
chmod_x(w, path) ==
    IF w.exc # "" THEN w ELSE [w EXCEPT !.xbits = @ \cup {path}]

\* the except clauses of main, in order
ErrorCode(exc) ==
    IF exc = "PermissionError" THEN "APPROVAL_REQUIRED"
    ELSE IF exc = "FileNotFoundError" THEN "FILE_NOT_FOUND"
    ELSE IF exc = "ValueError" THEN "VALIDATION_FAILED"
    ELSE "SCAFFOLD_FAILED"

(***************************************************************************)
(* Template texts are sequences of tokens: the markers of the template     *)
(* language, the names matching [A-Z_0-9]+, and literal text.              *)
(***************************************************************************)
OpenVar == "{{"
CloseBraces == "}}"
OpenIf == "{{#if "
EndIf == "{{/if}}"
OpenEach == "{{#each domains}}"
EndEach == "{{/each}}"
ItemName == "{{name}}"
ItemDependencies == "{{dependencies}}"

\* the tokens matching [A-Z_0-9]+
VariableNames ==
    {"A", "B", "PROJECT_NAME", "CREATED_AT", "GENERATED_AT", "DESIGN_PRESET",
     "PRESET_CREATIVE", "PRESET_CORPORATE", "PRESET_NEUTRAL", "PRESET_CUSTOM",
     "ACCENT_COLOR_1", "ACCENT_COLOR_2", "UNKNOWN"}

\* environment values, by Python type
Str(s) == [type |-> "str", s |-> s, b |-> FALSE, n |-> 0]
Bool(b) == [type |-> "bool", s |-> <<>>, b |-> b, n |-> 0]
Integer(n) == [type |-> "int", s |-> <<>>, b |-> FALSE, n |-> n]
None == [type |-> "none", s |-> <<>>, b |-> FALSE, n |-> 0]

IntegerText == <<"0", "1", "2">>

\* replace_var l.190-194: the text a value is rendered as
str(value) ==
    CASE value.type = "bool" -> IF value.b THEN <<"true">> ELSE <<"false">>
      [] value.type = "int" -> <<IntegerText[value.n + 1]>>
      [] value.type = "none" -> <<>>
      [] value.type = "str" -> value.s

\* replace_conditional l.207: if var_value
truthy(value) ==
    CASE value.type = "bool" -> value.b
      [] value.type = "int" -> value.n # 0
      [] value.type = "none" -> FALSE
      [] value.type = "str" -> value.s # <<>>

\* the end of the longest run [A-Z_0-9]+ starting at i: the first index past it
NameEnd(text, i) ==
    CHOOSE k \in i..(Len(text) + 1) :
        /\ k = Len(text) + 1 \/ text[k] \notin VariableNames
        /\ \A j \in i..(k - 1) : text[j] \in VariableNames

\* variables.get(var_name, default)
get(env, var_name, default) ==
    IF Len(var_name) = 1 /\ var_name[1] \in DOMAIN env THEN env[var_name[1]] ELSE default

\* \{\{([A-Z_0-9]+)\}\} matches at i
VarMatch(text, i) ==
    /\ i <= Len(text)
    /\ text[i] = OpenVar
    /\ NameEnd(text, i + 1) > i + 1
    /\ NameEnd(text, i + 1) <= Len(text)
    /\ text[NameEnd(text, i + 1)] = CloseBraces

\* replace_var with variables.get(var_name, "")
replace_var_default_empty(var_name, match, env) == str(get(env, var_name, Str(<<>>)))

\* replace_var: variables.get(var_name, match.group(0))
replace_var(var_name, match, env) == str(get(env, var_name, Str(match)))

\* re.sub(r"\{\{([A-Z_0-9]+)\}\}", replace_var, content), scanning from i
RECURSIVE sub_variables(_, _, _)
sub_variables(text, env, i) ==
    IF i > Len(text) THEN <<>>
    ELSE IF VarMatch(text, i)
         THEN LET k == NameEnd(text, i + 1)
              IN  replace_var(SubSeq(text, i + 1, k - 1), SubSeq(text, i, k), env)
                      \o sub_variables(text, env, k + 1)
         ELSE <<text[i]>> \o sub_variables(text, env, i + 1)

\* \{\{#if\s+([A-Z_0-9]+)\}\}(.*?)\{\{/if\}\} matches at i
IfMatch(text, i) ==
    /\ i <= Len(text)
    /\ text[i] = OpenIf
    /\ NameEnd(text, i + 1) > i + 1
    /\ NameEnd(text, i + 1) <= Len(text)
    /\ text[NameEnd(text, i + 1)] = CloseBraces
    /\ \E e \in (NameEnd(text, i + 1) + 1)..Len(text) : text[e] = EndIf

\* (.*?)\{\{/if\}\}: the first closing marker after k
IfClose(text, k) ==
    CHOOSE e \in (k + 1)..Len(text) :
        text[e] = EndIf /\ \A j \in (k + 1)..(e - 1) : text[j] # EndIf

\* re.search(pattern, text, re.DOTALL)
search(text) == \E i \in 1..Len(text) : IfMatch(text, i)

\* replace_conditional returning the whole match for a truthy variable
replace_conditional_keeping_markers(var_name, inner_content, env) ==
    IF truthy(get(env, var_name, Bool(FALSE)))
    THEN <<OpenIf>> \o var_name \o <<CloseBraces>> \o inner_content \o <<EndIf>>
    ELSE <<>>

\* replace_conditional l.203-209
replace_conditional(var_name, inner_content, env) ==
    IF truthy(get(env, var_name, Bool(FALSE))) THEN inner_content ELSE <<>>

\* re.sub(pattern, replace_conditional, text, flags=re.DOTALL), scanning from i
RECURSIVE sub_conditionals(_, _, _)
sub_conditionals(text, env, i) ==
    IF i > Len(text) THEN <<>>
    ELSE IF IfMatch(text, i)
         THEN LET k == NameEnd(text, i + 1)
                  e == IfClose(text, k)
              IN  replace_conditional(SubSeq(text, i + 1, k - 1),
                                      SubSeq(text, k + 1, e - 1), env)
                      \o sub_conditionals(text, env, e + 1)
         ELSE <<text[i]>> \o sub_conditionals(text, env, i + 1)

\* process_conditionals: while re.search(...): text = re.sub(...)
RECURSIVE process_conditionals(_, _)
process_conditionals(text, env) ==
    IF search(text) THEN process_conditionals(sub_conditionals(text, env, 1), env)
    ELSE text

\* \{\{#each domains\}\}(.*?)\{\{/each\}\} matches at i
EachMatch(text, i) ==
    /\ i <= Len(text)
    /\ text[i] = OpenEach
    /\ \E e \in (i + 1)..Len(text) : text[e] = EndEach

EachClose(text, i) ==
    CHOOSE e \in (i + 1)..Len(text) :
        text[e] = EndEach /\ \A j \in (i + 1)..(e - 1) : text[j] # EndEach

\* ", ".join(names)
RECURSIVE join(_)
join(names) ==
    IF names = <<>> THEN <<>>
    ELSE IF Len(names) = 1 THEN <<names[1]>>
    ELSE <<names[1], ", ">> \o join(Tail(names))

\* item.replace(placeholder, value)
RECURSIVE replace(_, _, _)
replace(item, placeholder, value) ==
    IF item = <<>> THEN <<>>
    ELSE (IF Head(item) = placeholder THEN value ELSE <<Head(item)>>)
             \o replace(Tail(item), placeholder, value)

\* ", ".join(domain.get("dependencies", [])) without the fallback to "None"
dependencies_text_joined_only(domain) == join(domain.dependencies)

\* ", ".join(domain.get("dependencies", [])) or "None"
dependencies_text(domain) ==
    IF join(domain.dependencies) = <<>> THEN <<"None">> ELSE join(domain.dependencies)

\* replace_each l.223-234: one instantiation of the block's body per domain
RECURSIVE replace_each(_, _)
replace_each(template, domains) ==
    IF domains = <<>> THEN <<>>
    ELSE replace(replace(template, ItemName, <<Head(domains).name>>),
                 ItemDependencies, dependencies_text(Head(domains)))
             \o replace_each(template, Tail(domains))

\* re.sub(pattern, replace_each, text, flags=re.DOTALL), scanning from i
RECURSIVE sub_each(_, _, _)
sub_each(text, domains, i) ==
    IF i > Len(text) THEN <<>>
    ELSE IF EachMatch(text, i)
         THEN replace_each(SubSeq(text, i + 1, EachClose(text, i) - 1), domains)
                  \o sub_each(text, domains, EachClose(text, i) + 1)
         ELSE <<text[i]>> \o sub_each(text, domains, i + 1)

\* process_each_domains: domains = variables.get("domains", [])
process_each_domains(text, env) ==
    sub_each(text, IF "domains" \in DOMAIN env THEN env.domains ELSE <<>>, 1)

substitute_variables(content, env) ==
    process_each_domains(process_conditionals(sub_variables(content, env, 1), env), env)

(***************************************************************************)
(* Template environment and substitution.                                  *)
(***************************************************************************)
TicksPerSecond == 2

ClockText == <<"T0", "T1", "T2", "T3", "T4", "T5", "T6", "T7", "T8", "T9">>
SecondText == <<"S0", "S1", "S2", "S3", "S4", "S5", "S6", "S7", "S8", "S9">>

\* datetime.now(timezone.utc).isoformat(): microsecond resolution
isoformat(t) == ClockText[t + 1]

\* strftime("%Y-%m-%d %H:%M:%S UTC"): one-second resolution
strftime(t) == SecondText[(t \div TicksPerSecond) + 1]

\* build_template_variables: the variables the template texts of the model refer to
\* a key the JSON object does not hold
Missing == "<missing>"

\* design_brief.get("preset", default)
preset_get(design_brief, default) ==
    IF design_brief.preset = Missing THEN default ELSE design_brief.preset

\* colors.get("accent", default)
accent_get(design_brief, default) ==
    IF design_brief.accent.given THEN design_brief.accent.list ELSE default

DefaultAccent == "#0891b2"

\* l.130: colors.get("accent", ["#0891b2"])[0] if colors.get("accent") else "#0891b2"
accent_color_1(design_brief) ==
    IF accent_get(design_brief, <<>>) # <<>>
    THEN accent_get(design_brief, <<DefaultAccent>>)[1]
    ELSE DefaultAccent

\* l.131: colors.get("accent", [...])[1] if len(colors.get("accent", [])) > 1 else "#0891b2"
accent_color_2(design_brief) ==
    IF Len(accent_get(design_brief, <<>>)) > 1
    THEN accent_get(design_brief, <<DefaultAccent, DefaultAccent>>)[2]
    ELSE DefaultAccent

\* build_template_variables: the variables the template texts of the model refer
\* to, the design preset and the accent colors; t is the clock read by l.116-117
build_template_variables(plan, t) ==
    [PROJECT_NAME |-> Str(<<plan.project_name>>),
     CREATED_AT |-> Str(<<isoformat(t)>>),
     GENERATED_AT |-> Str(<<strftime(t)>>),
     DESIGN_PRESET |-> Str(<<preset_get(plan.design_brief, "corporate")>>),
     PRESET_CREATIVE |-> Bool(plan.design_brief.preset = "creative"),
     PRESET_CORPORATE |-> Bool(plan.design_brief.preset = "corporate"),
     PRESET_NEUTRAL |-> Bool(plan.design_brief.preset = "neutral"),
     PRESET_CUSTOM |-> Bool(plan.design_brief.preset = "custom"),
     ACCENT_COLOR_1 |-> Str(<<accent_color_1(plan.design_brief)>>),
     ACCENT_COLOR_2 |-> Str(<<accent_color_2(plan.design_brief)>>),
     domains |-> plan.domains]

(***************************************************************************)
(* The template source tree TEMPLATES_DIR, as relative paths.              *)
(***************************************************************************)
RulesSourceDir == <<<<".claude">>, <<"rules">>>>
UiSourceDir == <<<<"src">>, <<"components">>, <<"ui">>>>

TplArchitecture == RulesSourceDir \o <<<<"architecture.md", ".template">>>>
TplEslint == <<<<".eslintrc.js", ".template">>>>
TplPrettier == <<<<".prettierrc", ".template">>>>
TplHusky == <<<<".husky">>, <<"pre-commit", ".template">>>>
TplTailwind == <<<<"tailwind.config.js", ".template">>>>
TplClaude == <<<<"CLAUDE.md">>>>
TplGuide == <<<<"KREATIVREASON-GUIDE.md">>>>
TplCursorrules == <<<<".cursorrules", ".template">>>>
TplProjectContext == <<<<"PROJECT_CONTEXT.md", ".template">>>>
TplButton == UiSourceDir \o <<<<"Button.tsx", ".template">>>>
TplCn == <<<<"src">>, <<"utils">>, <<"cn.ts", ".template">>>>

TemplatePaths ==
    {TplArchitecture, TplEslint, TplPrettier, TplHusky, TplTailwind, TplClaude,
     TplGuide, TplCursorrules, TplProjectContext, TplButton, TplCn}

TemplateTexts ==
    {<<"text", OpenVar, "PROJECT_NAME", CloseBraces, OpenVar, "UNKNOWN", CloseBraces>>,
     <<"text", OpenVar, "CREATED_AT", CloseBraces, OpenVar, "GENERATED_AT", CloseBraces>>}

\* the source trees considered: no template at all, or every template with one text
TemplateLayouts ==
    {[p \in S |-> t] : S \in {{}, TemplatePaths}, t \in TemplateTexts}

Last(s) == s[Len(s)]

\* rules_source.exists()
SourceDirExists(tpl, dir) == \E k \in DOMAIN tpl : IsUnder(dir, k)

\* dir.glob("*.template")
Glob(tpl, dir) ==
    {k \in DOMAIN tpl : Parent(k) = dir /\ Last(Last(k)) = ".template"}

\* template_file.name.replace(".template", "")
TargetName(name) == SelectSeq(name, LAMBDA a : a # ".template")

\* final_path.with_suffix("") when final_path.suffix == ".template"
FinalPath(target) ==
    IF Len(Last(target)) > 1 /\ Last(Last(target)) = ".template"
    THEN Append(Parent(target), SubSeq(Last(target), 1, Len(Last(target)) - 1))
    ELSE target

\* apply_template_file writing also in dry-run mode
apply_template_file_ignoring_dry_run(w, tpl, source, target, env, dry_run) ==
    IF source \notin DOMAIN tpl THEN [w |-> w, ok |-> FALSE]
    ELSE [w |-> write_text(ensure_directory(w, Parent(target)), FinalPath(target),
                           substitute_variables(tpl[source], env)),
          ok |-> TRUE]

apply_template_file(w, tpl, source, target, env, dry_run) ==
    IF source \notin DOMAIN tpl THEN [w |-> w, ok |-> FALSE]
    ELSE IF dry_run THEN [w |-> w, ok |-> TRUE]
    ELSE [w |-> write_text(ensure_directory(w, Parent(target)), FinalPath(target),
                           substitute_variables(tpl[source], env)),
          ok |-> TRUE]

\* if apply_template_file(...): files_injected += 1
InjectOne(acc, tpl, source, target, env, dry_run) ==
    LET r == apply_template_file(acc.w, tpl, source, target, env, dry_run)
    IN  [w |-> r.w, n |-> IF r.ok THEN acc.n + 1 ELSE acc.n]

RECURSIVE InjectGlob(_, _, _, _, _, _)

\* for template_file in source_dir.glob("*.template"): ...
InjectGlob(acc, tpl, sources, target_dir, env, dry_run) ==
    IF sources = {} THEN acc
    ELSE LET s == CHOOSE x \in sources : TRUE
         IN  InjectGlob(InjectOne(acc, tpl, s, Append(target_dir, TargetName(Last(s))),
                                  env, dry_run),
                        tpl, sources \ {s}, target_dir, env, dry_run)

(***************************************************************************)
(* create_domain_structure                                                 *)
(***************************************************************************)
RECURSIVE EnsureAll(_, _), WriteAll(_, _)

EnsureAll(w, paths) ==
    IF paths = <<>> THEN w ELSE EnsureAll(ensure_directory(w, Head(paths)), Tail(paths))

\* ensure_directory(file_path.parent); file_path.write_text(content)
WriteAll(w, files) ==
    IF files = <<>> THEN w
    ELSE WriteAll(write_text(ensure_directory(w, Parent(Head(files).path)),
                             Head(files).path, Head(files).content),
                  Tail(files))

DomainPath(domain_name) == Join(project_root, <<"src", "domains", domain_name>>)

frontend_dirs(dp) ==
    <<dp, Append(dp, <<"components">>), Append(dp, <<"constants">>), Append(dp, <<"hooks">>)>>

Barrel(kind, domain_name) == <<"barrel", kind, domain_name>>

frontend_files(dp, domain_name) ==
    <<[path |-> Append(dp, <<"index.ts">>), content |-> Barrel("domain", domain_name)],
      [path |-> Join(dp, <<"components", "index.ts">>),
       content |-> Barrel("components", domain_name)],
      [path |-> Join(dp, <<"constants", "index.ts">>),
       content |-> Barrel("constants", domain_name)],
      [path |-> Join(dp, <<"hooks", "index.ts">>), content |-> Barrel("hooks", domain_name)]>>

\* the body of "for domain in domains"
create_one_domain(w, domain, dry_run) ==
    LET domain_name == domain.name
        dp == DomainPath(domain_name)
        features == Append(dp, <<"features">>)
        features_index == Append(features, <<"index.ts">>)
        w1 == IF dry_run THEN w ELSE EnsureAll(w, frontend_dirs(dp))
        w2 == IF dry_run THEN w1 ELSE WriteAll(w1, frontend_files(dp, domain_name))
        backend == ~exists(w2, dp) \/ ~exists(w2, features)
        w3 == IF backend /\ ~dry_run THEN ensure_directory(w2, features) ELSE w2
        write_backend == backend /\ ~exists(w3, features_index) /\ ~dry_run
        w4 == IF write_backend
              THEN write_text(ensure_directory(w3, features), features_index,
                              Barrel("features", domain_name))
              ELSE w3
    IN  [w |-> w4,
         rec |-> [name |-> domain_name,
                  files_created |-> (IF dry_run THEN 0 ELSE 4)
                                    + (IF write_backend THEN 1 ELSE 0),
                  directories_created |-> (IF dry_run THEN 0 ELSE 4)
                                          + (IF backend /\ ~dry_run THEN 1 ELSE 0)]]

RECURSIVE create_domain_structure(_, _, _, _)

create_domain_structure(w, domains, dry_run, created) ==
    IF domains = <<>> THEN [w |-> w, domains_created |-> created]
    ELSE LET r == create_one_domain(w, Head(domains), dry_run)
         IN  create_domain_structure(r.w, Tail(domains), dry_run, Append(created, r.rec))

(***************************************************************************)
(* The template injection groups.                                          *)
(***************************************************************************)
inject_architecture_rules(w, tpl, env, dry_run) ==
    IF SourceDirExists(tpl, RulesSourceDir)
    THEN InjectGlob([w |-> w, n |-> 0], tpl, Glob(tpl, RulesSourceDir),
                    Join(project_root, <<".claude", "rules">>), env, dry_run)
    ELSE [w |-> w, n |-> 0]

HuskyTarget == Join(project_root, <<".husky", "pre-commit">>)

inject_quality_tools(w, tpl, env, dry_run) ==
    LET a1 == InjectOne([w |-> w, n |-> 0], tpl, TplEslint,
                        Join(project_root, <<".eslintrc.js">>), env, dry_run)
        a2 == InjectOne(a1, tpl, TplPrettier, Join(project_root, <<".prettierrc">>),
                        env, dry_run)
        h == apply_template_file(a2.w, tpl, TplHusky, HuskyTarget, env, dry_run)
        a3 == [w |-> IF h.ok /\ ~dry_run /\ exists(h.w, HuskyTarget)
                     THEN chmod_x(h.w, HuskyTarget) ELSE h.w,
               n |-> IF h.ok THEN a2.n + 1 ELSE a2.n]
    IN  InjectOne(a3, tpl, TplTailwind, Join(project_root, <<"tailwind.config.js">>),
                  env, dry_run)

\* a direct-copy file: target.write_text(source.read_text()), no substitution
DirectCopy(acc, tpl, source, dry_run) ==
    IF source \in DOMAIN tpl
    THEN [w |-> IF dry_run THEN acc.w
                ELSE write_text(ensure_directory(acc.w, project_root),
                                project_root \o source, tpl[source]),
          n |-> acc.n + 1]
    ELSE acc

inject_ai_context(w, tpl, env, dry_run) ==
    LET a1 == DirectCopy([w |-> w, n |-> 0], tpl, TplClaude, dry_run)
        a2 == DirectCopy(a1, tpl, TplGuide, dry_run)
        a3 == InjectOne(a2, tpl, TplCursorrules, Join(project_root, <<".cursorrules">>),
                        env, dry_run)
    IN  InjectOne(a3, tpl, TplProjectContext, Join(project_root, <<"PROJECT_CONTEXT.md">>),
                  env, dry_run)

inject_design_system(w, tpl, env, dry_run) ==
    LET a1 == IF SourceDirExists(tpl, UiSourceDir)
              THEN InjectGlob([w |-> w, n |-> 0], tpl, Glob(tpl, UiSourceDir),
                              project_root \o UiSourceDir, env, dry_run)
              ELSE [w |-> w, n |-> 0]
    IN  InjectOne(a1, tpl, TplCn, Join(project_root, <<"src", "utils", "cn.ts">>),
                  env, dry_run)

(***************************************************************************)
(* Ad-hoc template groups: placeholder files.                              *)
(***************************************************************************)
DotAtoms == {".py", ".ts", ".js", ".tsx", ".jsx", ".sql", ".json", ".md"}
NestAtoms == {".module", ".service", ".controller", ".entity", ".dto"}

\* Path.suffix of a file name given as atoms
Suffix(name) == IF Len(name) > 1 /\ Last(name) \in DotAtoms THEN Last(name) ELSE ""

\* any(pattern in filename for pattern in ['.module.', '.service.', ...])
NestInfix(name) ==
    {name[i] : i \in {j \in 1..(Len(name) - 1) :
                         name[j] \in NestAtoms /\ name[j + 1] \in DotAtoms \cup NestAtoms}}

generate_placeholder_content(path, project_name) ==
    LET name == Last(path)
        suffix == Suffix(name)
        kind == IF suffix = ".py" THEN "py"
                ELSE IF suffix \in {".ts", ".js"}
                     THEN (IF NestInfix(name) # {} THEN "nestjs" ELSE "ts")
                ELSE IF suffix \in {".tsx", ".jsx"} THEN "tsx"
                ELSE IF suffix = ".sql" THEN "sql"
                ELSE IF suffix = ".json" THEN "json"
                ELSE IF suffix = ".md" THEN "md"
                ELSE IF name = <<"Makefile">> THEN "Makefile"
                ELSE "other"
    IN  <<"placeholder", kind, project_name>>

write_placeholder_file(w, path, project_name) ==
    LET w1 == ensure_directory(w, Parent(path))
    IN  IF ~exists(w1, path)
        THEN write_text(w1, path, generate_placeholder_content(path, project_name))
        ELSE w1

\* lines 596-600: where a listed file goes
full_path(target_path, rel_file) ==
    LET normalized_target == rstrip(lstrip(target_path))
    IN  IF normalized_target # <<>> /\ ~startswith(rel_file, normalized_target)
        THEN normalized_target \o <<Sep>> \o rel_file
        ELSE rel_file

collect_fs_metadata(w, path) ==
    [path |-> path, executable |-> path \in w.xbits]

RECURSIVE apply_template_files(_, _, _, _, _)

\* for rel_file in files: ...
\* acc = [w, files_created, created_count]
apply_template_files(acc, target_path, files, project_name, dry_run) ==
    IF files = <<>> \/ acc.w.exc # "" THEN acc
    ELSE LET file_path == ResolveUnder(project_root, full_path(target_path, Head(files)))
             w1 == IF dry_run THEN acc.w
                   ELSE write_placeholder_file(acc.w, file_path, project_name)
             found == w1.exc = "" /\ exists(w1, file_path)
         IN  apply_template_files(
                 [w |-> w1,
                  files_created |-> IF found
                                    THEN Append(acc.files_created,
                                                collect_fs_metadata(w1, file_path))
                                    ELSE acc.files_created,
                  created_count |-> IF found THEN acc.created_count + 1
                                    ELSE acc.created_count],
                 target_path, Tail(files), project_name, dry_run)

RECURSIVE apply_templates(_, _, _, _)

\* for template in data.get("templates_to_apply", []): ...
\* acc = [w, files_created, templates_applied]
apply_templates(acc, templates_to_apply, project_name, dry_run) ==
    IF templates_to_apply = <<>> \/ acc.w.exc # "" THEN acc
    ELSE LET template == Head(templates_to_apply)
             r == apply_template_files(
                      [w |-> acc.w, files_created |-> acc.files_created,
                       created_count |-> 0],
                      template.target_path, template.files_to_generate,
                      project_name, dry_run)
         IN  apply_templates(
                 [w |-> r.w,
                  files_created |-> r.files_created,
                  templates_applied |->
                      Append(acc.templates_applied,
                             [template_id |-> template.id,
                              status |-> IF r.created_count = Len(template.files_to_generate)
                                         THEN "success" ELSE "partial",
                              files_created |-> r.created_count,
                              directories_created |-> 0])],
                 Tail(templates_to_apply), project_name, dry_run)

(***************************************************************************)
(* apply_plan as one function of the file system it starts from: what the  *)
(* run reports when no step raises.                                        *)
(***************************************************************************)
RECURSIVE ensure_directories(_, _)

\* for dir_path in directory_structure.keys(): ensure_directory(resolve(root / dir_path))
ensure_directories(w, directory_structure) ==
    IF directory_structure = <<>> THEN w
    ELSE ensure_directories(
             ensure_directory(w, ResolveUnder(project_root, Head(directory_structure))),
             Tail(directory_structure))

Applied(template_id, n, d) ==
    [template_id |-> template_id, status |-> "success", files_created |-> n,
     directories_created |-> d]

\* one toggle-gated group: the file system after it and the entries reported so far
Group(enabled, acc, r, template_id, d) ==
    IF enabled
    THEN [w |-> r.w, templates_applied |-> Append(acc.templates_applied,
                                                   Applied(template_id, r.n, d))]
    ELSE acc

\* each step is evaluated on the value the step before it produced
apply_plan(w, plan, tpl, t, dry_run) ==
    LET env == build_template_variables(plan, t)
        s1 == {IF dry_run THEN w ELSE ensure_directories(w, plan.directory_structure)}
        s2 == {create_domain_structure(w1, plan.domains, dry_run, <<>>) : w1 \in s1}
        s3 == {[d |-> d.domains_created,
                g |-> Group(plan.inject_architecture_rules,
                            [w |-> d.w, templates_applied |-> <<>>],
                            inject_architecture_rules(d.w, tpl, env, dry_run),
                            "ARCH-RULES", 1)] : d \in s2}
        s4 == {[d |-> x.d,
                g |-> Group(plan.inject_husky \/ plan.inject_eslint_config, x.g,
                            inject_quality_tools(x.g.w, tpl, env, dry_run),
                            "QUALITY-TOOLS", 1)] : x \in s3}
        s5 == {[d |-> x.d,
                g |-> Group(TRUE, x.g, inject_ai_context(x.g.w, tpl, env, dry_run),
                            "AI-CONTEXT", 0)] : x \in s4}
        s6 == {[d |-> x.d,
                g |-> Group(plan.inject_design_system, x.g,
                            inject_design_system(x.g.w, tpl, env, dry_run),
                            "DESIGN-SYSTEM", 2)] : x \in s5}
        s7 == {[d |-> x.d,
                r |-> apply_templates([w |-> x.g.w, files_created |-> <<>>,
                                       templates_applied |-> x.g.templates_applied],
                                      plan.templates_to_apply, plan.project_name,
                                      dry_run)] : x \in s6}
    IN  CHOOSE out \in
            {[w |-> x.r.w,
              files_created |-> x.r.files_created,
              templates_applied |-> x.r.templates_applied,
              domains_created |-> x.d,
              architecture_rules_injected |-> plan.inject_architecture_rules,
              husky_configured |-> plan.inject_husky,
              eslint_configured |-> plan.inject_eslint_config,
              design_system_injected |-> plan.inject_design_system] : x \in s7} : TRUE

(***************************************************************************)
(* The gates of main: validate_inputs, then require_approval.              *)
(***************************************************************************)
REQUIRED_APPROVERS == {"Cynthia", "Usama"}

\* str.strip() on the approver names of the model
strip(a) == IF a = " Usama " THEN "Usama" ELSE a

NoException == [exc |-> "", message |-> <<>>]

\* ScaffoldPlanModel(**plan): of the schema, the DomainMapping validators
ScaffoldPlanModel_without_domain_validators(plan) == TRUE

ScaffoldPlanModel(plan) == DomainMapping(plan.domains).ok

\* the project-name test comparing the PRD and the ERD only
consistent_project_name_prd_erd_only(prd, erd, plan) ==
    Cardinality({prd.project_name, erd.project_name}) = 1

\* len({prj_prd, prj_erd, prj_plan}) != 1
consistent_project_name(prd, erd, plan) ==
    Cardinality({prd.project_name, erd.project_name, plan.project_name}) = 1

\* load_json: json.loads(path.read_text()); JSONDecodeError is a ValueError
load_json(doc) ==
    IF doc.file = "missing" THEN [exc |-> "FileNotFoundError", message |-> <<"plan">>]
    ELSE IF doc.file = "invalid_json" THEN [exc |-> "ValueError", message |-> <<"plan">>]
    ELSE NoException

validate_inputs(prd, erd, plan) ==
    IF ~prd.exists THEN [exc |-> "FileNotFoundError", message |-> <<"prd">>]
    ELSE IF ~erd.exists THEN [exc |-> "FileNotFoundError", message |-> <<"erd">>]
    ELSE IF load_json(plan).exc # "" THEN load_json(plan)
    ELSE IF ~ScaffoldPlanModel(plan)
         THEN [exc |-> "ValueError", message |-> <<"Scaffold plan validation failed">>]
    ELSE IF ~consistent_project_name(prd, erd, plan)
         THEN [exc |-> "ValueError", message |-> <<"Inconsistent project_name">>]
    ELSE NoException

SortedApprovers == <<"Cynthia", "Usama">>

\* require_approval with the required set taken as never missing
missing_approvers_none(provided_approvers) == {}

\* missing = REQUIRED_APPROVERS - provided
missing_approvers(provided_approvers) ==
    REQUIRED_APPROVERS \ {strip(a) : a \in provided_approvers}

require_approval(provided_approvers) ==
    IF missing_approvers(provided_approvers) # {}
    THEN [exc |-> "PermissionError",
          message |-> SelectSeq(SortedApprovers,
                                LAMBDA a : a \in missing_approvers(provided_approvers))]
    ELSE NoException

\* the first two statements of the try block, with require_approval called first
main_gates_approval_first(a) ==
    IF require_approval(a.approved_by).exc # ""
    THEN require_approval(a.approved_by)
    ELSE validate_inputs(a.prd, a.erd, a.plan)

\* the first two statements of the try block
main_gates(a) ==
    IF validate_inputs(a.prd, a.erd, a.plan).exc # ""
    THEN validate_inputs(a.prd, a.erd, a.plan)
    ELSE require_approval(a.approved_by)

(***************************************************************************)
(* Inputs of a run.                                                        *)
(***************************************************************************)
MaxPlanDomains == 2
MaxRuns == 2
MaxEdits == 1

PlanNames == {"a", "b"}
PlanDepLists == {<<>>} \cup {<<n>> : n \in PlanNames}
PlanDomainSchema == [name : PlanNames, dependencies : PlanDepLists]
PlanDomainLists == UNION {[1..n -> PlanDomainSchema] : n \in 1..MaxPlanDomains}

ProjectNames == {"Acme", "Acme-Corp"}
MissingDocument == [exists |-> FALSE, project_name |-> ""]
Documents == {MissingDocument} \cup {[exists |-> TRUE, project_name |-> n] : n \in ProjectNames}

ApproverTokens == {"Cynthia", " Usama ", "Bob"}
FullApproval == {"Cynthia", " Usama "}

BaseDomains == <<[name |-> "a", dependencies |-> <<>>]>>

\* the design_brief object of a plan: its preset and its colors' accent list, when given
DesignBrief(preset, given, accent) ==
    [preset |-> preset, accent |-> [given |-> given, list |-> accent]]

\* "design_brief": {}
NoBrief == DesignBrief(Missing, FALSE, <<>>)

BaseTemplates ==
    <<[id |-> "SCAFFOLD-001",
       target_path |-> <<"/", "src", "/">>,
       files_to_generate |-> <<<<"app", ".ts">>, <<"src", "/", "main", ".ts">>>>]>>

Plan(name, domains, arch, husky, eslint, design) ==
    [file |-> "ok",
     project_name |-> name,
     domains |-> domains,
     directory_structure |-> <<<<"src">>, <<"docs", "/">>>>,
     templates_to_apply |-> BaseTemplates,
     inject_architecture_rules |-> arch,
     inject_husky |-> husky,
     inject_eslint_config |-> eslint,
     inject_design_system |-> design,
     design_brief |-> NoBrief]

BasePlan == Plan("Acme", BaseDomains, TRUE, TRUE, TRUE, TRUE)

Args(prd, erd, plan, approved_by, dry_run) ==
    [prd |-> prd, erd |-> erd, plan |-> plan, approved_by |-> approved_by,
     dry_run |-> dry_run]

BaseDocument == [exists |-> TRUE, project_name |-> "Acme"]

\* the documents and the approvers vary
DocumentInputs ==
    {Args(p, e, Plan(n, BaseDomains, TRUE, TRUE, TRUE, TRUE), A, FALSE) :
        p \in Documents, e \in Documents, n \in ProjectNames, A \in SUBSET ApproverTokens}

\* the domain mapping varies, with and without the second approver, with any PRD
MappingInputs ==
    {Args(p, BaseDocument, Plan("Acme", d, TRUE, TRUE, TRUE, TRUE), A, FALSE) :
        p \in Documents, d \in PlanDomainLists, A \in {FullApproval, {"Cynthia"}}}

\* the file given as --plan is missing or does not hold JSON
PlanFileInputs ==
    {Args(BaseDocument, BaseDocument, [BasePlan EXCEPT !.file = f], FullApproval, FALSE) :
        f \in {"missing", "invalid_json"}}

\* the inputs that exercise validate_inputs and require_approval
GateInputs == DocumentInputs \cup MappingInputs \cup PlanFileInputs

\* the approvers vary
ApproverInputs ==
    {Args(BaseDocument, BaseDocument, BasePlan, A, FALSE) : A \in SUBSET ApproverTokens}

\* the domains to create vary (create_domain_structure reads their names only)
DomainInputs ==
    {Args(BaseDocument, BaseDocument, Plan("Acme", d, TRUE, TRUE, TRUE, TRUE),
          FullApproval, dry) :
        d \in {l \in PlanDomainLists : \A i \in 1..Len(l) : l[i].dependencies = <<>>},
        dry \in BOOLEAN}

\* the injection toggles vary: the two quality-tool toggles together, the
\* rules and design-system toggles together
Toggles ==
    {<<TRUE, h, e, TRUE>> : h \in BOOLEAN, e \in BOOLEAN}
        \cup {<<a, TRUE, TRUE, d>> : a \in BOOLEAN, d \in BOOLEAN}

ToggleInputs ==
    {Args(BaseDocument, BaseDocument, Plan("Acme", BaseDomains, t[1], t[2], t[3], t[4]),
          FullApproval, dry) :
        t \in Toggles, dry \in BOOLEAN}

\* target_path values: src, /src/ and / (which strips to the empty string)
TargetPaths == {<<"src">>, <<Sep, "src", Sep>>, <<Sep>>}

\* files_to_generate entries: a.ts, src/a.ts, srcfoo/a.ts, ../out.ts, /abs.ts
RelativeFiles ==
    {<<"a", ".ts">>, <<"src", Sep, "a", ".ts">>, <<"src", "foo", Sep, "a", ".ts">>,
     <<"..", Sep, "out", ".ts">>, <<Sep, "abs", ".ts">>}

\* directory_structure keys: src, ../out, /abs
DirectoryKeys == {<<"src">>, <<"..", Sep, "out">>, <<Sep, "abs">>}

\* the paths of the plan vary: one ad-hoc group of one file, or one directory
PathInputs ==
    {Args(BaseDocument, BaseDocument,
          [BasePlan EXCEPT !.templates_to_apply =
              <<[id |-> "SCAFFOLD-002", target_path |-> t, files_to_generate |-> <<f>>]>>],
          FullApproval, FALSE) : t \in TargetPaths, f \in RelativeFiles}
        \cup {Args(BaseDocument, BaseDocument,
                   [BasePlan EXCEPT !.directory_structure = <<d>>],
                   FullApproval, FALSE) : d \in DirectoryKeys}

\* the inputs that exercise apply_plan
RunInputs == ApproverInputs \cup DomainInputs \cup ToggleInputs \cup PlanFileInputs

NoArgs == Args(MissingDocument, MissingDocument,
               [file |-> "ok", project_name |-> "", domains |-> <<>>,
                directory_structure |-> <<>>,
                templates_to_apply |-> <<>>, inject_architecture_rules |-> FALSE,
                inject_husky |-> FALSE, inject_eslint_config |-> FALSE,
                inject_design_system |-> FALSE, design_brief |-> NoBrief],
               {}, FALSE)

NoVariables == [domains |-> <<>>]

NotEmitted == [kind |-> "none", code |-> "", message |-> <<>>, exit |-> -1]

\* emit_error: the error object is printed and the process exits with status 1
emit_error(code, message) == [kind |-> "error", code |-> code, message |-> message, exit |-> 1]

\* an exception that no except clause of main handles: the interpreter prints
\* the traceback and exits with status 1
uncaught(message) == [kind |-> "traceback", code |-> "", message |-> message, exit |-> 1]

\* files a developer may have edited by hand before a run
EditablePaths ==
    {Join(DomainPath("a"), <<"index.ts">>),
     Join(project_root, <<".claude", "rules", "architecture.md">>),
     HuskyTarget,
     Join(project_root, <<"CLAUDE.md">>),
     project_root \o <<<<"src">>, <<"app", ".ts">>>>}

HandContent == <<"hand">>

(***************************************************************************)
(* Actions.                                                                *)
(***************************************************************************)
World == [fs |-> fs, dirs |-> dirs, xbits |-> xbits, readonly |-> readonly, exc |-> ""]

\* the file system after a step; an exception ends the run in the except
\* clauses of main
Commit(w, next_pc) ==
    /\ fs' = w.fs
    /\ dirs' = w.dirs
    /\ xbits' = w.xbits
    /\ IF w.exc # ""
       THEN pc' = "done" /\ emitted' = emit_error(ErrorCode(w.exc), <<w.exc>>)
       ELSE pc' = next_pc /\ UNCHANGED emitted

(***************************************************************************)
(* Specification of substitute_variables alone: a template text and an     *)
(* environment are drawn, then the three passes run in the order of the    *)
(* code, the conditional loop one iteration at a time.                     *)
(***************************************************************************)
MaxTextLen == 4
MaxDepth == 2
MaxEachDomains == 3
MaxPasses == 3

\* a name the environment does not hold
Absent == [type |-> "absent", s |-> <<>>, b |-> FALSE, n |-> 0]

\* the environment holding A and B (unless absent) and the domain records
Env(a, b, domains) ==
    [k \in {"domains"} \cup (IF a = Absent THEN {} ELSE {"A"})
                       \cup (IF b = Absent THEN {} ELSE {"B"}) |->
        CASE k = "A" -> a
          [] k = "B" -> b
          [] k = "domains" -> domains]

Values ==
    {Absent, None, Str(<<>>), Str(<<"v">>), Bool(TRUE), Bool(FALSE), Integer(0), Integer(1)}

\* a template text, with the structure it was built from when it has one
Input(kind, text, tree, shape) == [kind |-> kind, text |-> text, tree |-> tree, shape |-> shape]
NoInput == Input("none", <<>>, <<>>, <<>>)

\* every text of at most MaxTextLen tokens: balanced or not
FreeTokens == {"x", OpenVar, "A", CloseBraces, OpenIf, EndIf}
FreeTexts == UNION {[1..n -> FreeTokens] : n \in 0..MaxTextLen}
FreeInputs ==
    {[input |-> Input("free", t, <<>>, <<>>), env |-> Env(a, Absent, <<>>)] :
        t \in FreeTexts, a \in {Absent, Str(<<"v">>), Bool(FALSE)}}

\* placeholders and a conditional, with a value of every type
ValueTexts ==
    {<<OpenVar, "A", CloseBraces>>,
     <<"x", OpenVar, "B", CloseBraces, OpenVar, "A", "B", CloseBraces>>,
     <<OpenIf, "A", CloseBraces, OpenVar, "B", CloseBraces, EndIf>>}
ValueInputs ==
    {[input |-> Input("value", t, <<>>, <<>>), env |-> Env(a, b, <<>>)] :
        t \in ValueTexts, a \in Values, b \in {Absent, Str(<<"v">>)}}

\* well-nested conditional blocks, as trees
Lit(tok) == [if |-> FALSE, tok |-> tok, name |-> "", body |-> <<>>]
Block(name, body) == [if |-> TRUE, tok |-> "", name |-> name, body |-> body]

RECURSIVE Render(_)
Render(tree) ==
    IF tree = <<>> THEN <<>>
    ELSE (IF Head(tree).if
          THEN <<OpenIf, Head(tree).name, CloseBraces>> \o Render(Head(tree).body) \o <<EndIf>>
          ELSE <<Head(tree).tok>>) \o Render(Tail(tree))

\* blocks nested one inside the other: {{#if N1}}x{{#if N2}}y{{/if}}z{{/if}}
RECURSIVE Chain(_)
Chain(names) ==
    IF Len(names) = 1 THEN <<Block(names[1], <<Lit("y")>>)>>
    ELSE <<Block(names[1], <<Lit("x")>> \o Chain(Tail(names)) \o <<Lit("z")>>)>>

\* two blocks side by side inside a third
Siblings(n1, n2, n3) == <<Block(n1, <<Block(n2, <<Lit("x")>>), Block(n3, <<Lit("y")>>)>>)>>

NestedTrees ==
    {Chain(names) : names \in UNION {[1..d -> {"A", "B"}] : d \in 1..MaxDepth}}
        \cup {Siblings(n1, n2, n3) : n1 \in {"A", "B"}, n2 \in {"A", "B"}, n3 \in {"A", "B"}}
NestedInputs ==
    {[input |-> Input("nested", Render(t), t, <<>>), env |-> Env(a, b, <<>>)] :
        t \in NestedTrees, a \in {Bool(TRUE), Absent}, b \in {Str(<<"v">>), Integer(0)}}

\* a block put inside a marker or next to one: its removal joins the text around it
Insert(host, k, block) == SubSeq(host, 1, k) \o block \o SubSeq(host, k + 1, Len(host))
JoinHosts == {<<OpenIf, "A", CloseBraces, "x", EndIf>>, <<OpenVar, "A", CloseBraces>>}
JoinBlocks == {<<OpenIf, "B", CloseBraces, EndIf>>, <<OpenIf, "B", CloseBraces, "y", EndIf>>}
JoinPlaces == UNION {{<<host, k>> : k \in 0..Len(host)} : host \in JoinHosts}
JoinInputs ==
    {[input |-> Input("join", Insert(h[1], h[2], blk), <<>>, <<>>), env |-> Env(a, b, <<>>)] :
        h \in JoinPlaces, blk \in JoinBlocks,
        a \in {Bool(TRUE), Absent}, b \in {Bool(TRUE), Absent}}

\* texts made of plain segments and {{#each domains}} blocks
Text(text) == [each |-> FALSE, text |-> text]
Each(body) == [each |-> TRUE, text |-> body]

RECURSIVE RenderShape(_)
RenderShape(shape) ==
    IF shape = <<>> THEN <<>>
    ELSE (IF Head(shape).each THEN <<OpenEach>> \o Head(shape).text \o <<EndEach>>
          ELSE Head(shape).text) \o RenderShape(Tail(shape))

EachShapes ==
    {<<Text(<<"p">>), Each(<<ItemName, ":", ItemDependencies, ";">>), Text(<<"q">>)>>,
     <<Each(<<ItemName>>), Text(<<"-">>), Each(<<ItemDependencies, ItemName>>)>>,
     <<Each(<<>>)>>,
     <<Each(<<"x">>)>>,
     <<Text(<<"p", ItemName>>)>>,
     <<Text(<<OpenEach, ItemName>>)>>}

EachDomainRecords ==
    {[name |-> "a", dependencies |-> <<>>],
     [name |-> "b", dependencies |-> <<"a">>],
     [name |-> "c", dependencies |-> <<"a", "b">>]}
EachDomainLists == UNION {[1..n -> EachDomainRecords] : n \in 0..MaxEachDomains}
EachInputs ==
    {[input |-> Input("each", RenderShape(s), <<>>, s), env |-> Env(Absent, Absent, d)] :
        s \in EachShapes, d \in EachDomainLists}

\* a placeholder {{A}} whose value is itself made of template markers
MarkupValues ==
    {Str(<<OpenIf, "B", CloseBraces>>), Str(<<EndIf>>),
     Str(<<OpenEach, ItemName, EndEach>>), Str(<<"v">>)}
InertTexts ==
    {<<OpenVar, "A", CloseBraces, "x", EndIf, "y">>,
     <<OpenIf, "B", CloseBraces, "x", OpenVar, "A", CloseBraces, "y", EndIf>>,
     <<"p", OpenVar, "A", CloseBraces, "q">>}
InertInputs ==
    {[input |-> Input("inert", t, <<>>, <<>>), env |-> Env(a, b, d)] :
        t \in InertTexts, a \in MarkupValues, b \in {Absent, Bool(TRUE)},
        d \in {<<>>, <<[name |-> "a", dependencies |-> <<>>]>>}}

SubstInputs ==
    FreeInputs \cup ValueInputs \cup NestedInputs \cup JoinInputs \cup EachInputs
        \cup InertInputs

SubstIdle ==
    /\ phase = "idle"
    /\ input = NoInput
    /\ bindings = NoVariables
    /\ buffer = <<>>
    /\ interpolated = <<>>
    /\ passes = 0

EnvIdle ==
    /\ request = NoArgs.plan
    /\ clock = 0
    /\ returned = <<>>

RunIdle ==
    /\ pc = "idle"
    /\ args = NoArgs
    /\ emitted = NotEmitted
    /\ fs = <<>>
    /\ dirs = {}
    /\ xbits = {}
    /\ now = 0
    /\ variables = NoVariables
    /\ files_created = <<>>
    /\ templates_applied = <<>>
    /\ domains_created = <<>>
    /\ start = [fs |-> <<>>, dirs |-> {}, xbits |-> {}]
    /\ rerun = FALSE
    /\ written = FALSE
    /\ runs = 0
    /\ edits = 0
    /\ readonly = FALSE

Init ==
    /\ v = <<>>
    /\ verdict = Pending
    /\ templates \in TemplateLayouts
    /\ RunIdle
    /\ SubstIdle
    /\ EnvIdle

\* main up to apply_plan: the arguments are parsed, the plan is loaded (outside
\* the try block), then validate_inputs(...) and require_approval(args.approved_by)
Begin(a, again) ==
    /\ runs < MaxRuns
    /\ args' = a
    /\ runs' = runs + 1
    /\ now' = now + 1
    /\ start' = [fs |-> fs, dirs |-> dirs, xbits |-> xbits]
    /\ rerun' = again
    /\ LET g == main_gates(a)
       IN  IF load_json(a.plan).exc # ""
           THEN pc' = "done" /\ emitted' = uncaught(load_json(a.plan).message)
           ELSE IF g.exc # ""
           THEN pc' = "done" /\ emitted' = emit_error(ErrorCode(g.exc), g.message)
           ELSE pc' = "directories" /\ emitted' = NotEmitted
    /\ variables' = NoVariables
    /\ files_created' = <<>>
    /\ templates_applied' = <<>>
    /\ domains_created' = <<>>
    /\ written' = FALSE
    /\ UNCHANGED <<fs, dirs, xbits, templates, edits, readonly, v, verdict, substVars, envVars>>

\* the command is run with some inputs
StartRun ==
    /\ pc = "idle"
    /\ \E a \in RunInputs : Begin(a, FALSE)

\* the same command is run again after a successful run, nothing edited in between
Rerun ==
    /\ pc = "done"
    /\ emitted.kind = "result"
    /\ Begin(args, TRUE)

\* apply_plan: build_template_variables and step 1
CreateDirectories ==
    /\ pc = "directories"
    /\ variables' = build_template_variables(args.plan, now)
    /\ Commit(IF args.dry_run THEN World
              ELSE ensure_directories(World, args.plan.directory_structure), "domains")
    /\ UNCHANGED <<args, templates, now, files_created, templates_applied,
                   domains_created, start, rerun, written, runs, edits, readonly, v, verdict, substVars, envVars>>

\* apply_plan step 2
CreateDomainStructure ==
    /\ pc = "domains"
    /\ LET r == create_domain_structure(World, args.plan.domains, args.dry_run, <<>>)
       IN  /\ Commit(r.w, "architecture")
           /\ domains_created' = r.domains_created
    /\ UNCHANGED <<args, templates, now, variables, files_created, templates_applied,
                   start, rerun, written, runs, edits, readonly, v, verdict, substVars, envVars>>

\* one toggle-gated injection group of apply_plan
InjectionStep(enabled, r, template_id, d, next_pc) ==
    /\ IF enabled
       THEN /\ Commit(r.w, next_pc)
            /\ templates_applied' = Append(templates_applied, Applied(template_id, r.n, d))
       ELSE /\ pc' = next_pc
            /\ UNCHANGED <<fs, dirs, xbits, emitted, templates_applied>>
    /\ UNCHANGED <<args, templates, now, variables, files_created, domains_created,
                   start, rerun, written, runs, edits, readonly, v, verdict, substVars, envVars>>

\* apply_plan step 3
InjectArchitectureRules ==
    /\ pc = "architecture"
    /\ InjectionStep(args.plan.inject_architecture_rules,
                     inject_architecture_rules(World, templates, variables, args.dry_run),
                     "ARCH-RULES", 1, "quality")

\* apply_plan step 4
InjectQualityTools ==
    /\ pc = "quality"
    /\ InjectionStep(args.plan.inject_husky \/ args.plan.inject_eslint_config,
                     inject_quality_tools(World, templates, variables, args.dry_run),
                     "QUALITY-TOOLS", 1, "context")

\* apply_plan step 5
InjectAiContext ==
    /\ pc = "context"
    /\ InjectionStep(TRUE,
                     inject_ai_context(World, templates, variables, args.dry_run),
                     "AI-CONTEXT", 0, "design")

\* apply_plan step 6
InjectDesignSystem ==
    /\ pc = "design"
    /\ InjectionStep(args.plan.inject_design_system,
                     inject_design_system(World, templates, variables, args.dry_run),
                     "DESIGN-SYSTEM", 2, "templates")

\* apply_plan step 7
ApplyTemplates ==
    /\ pc = "templates"
    /\ LET r == apply_templates([w |-> World, files_created |-> files_created,
                                 templates_applied |-> templates_applied],
                                args.plan.templates_to_apply, args.plan.project_name,
                                args.dry_run)
       IN  /\ Commit(r.w, "report")
           /\ files_created' = r.files_created
           /\ templates_applied' = r.templates_applied
    /\ UNCHANGED <<args, templates, now, variables, domains_created, start, rerun,
                   written, runs, edits, readonly, v, verdict, substVars, envVars>>

\* main after apply_plan: the result document is written and printed, exit status 0
Report ==
    /\ pc = "report"
    /\ written' = TRUE
    /\ emitted' = [kind |-> "result", code |-> "", message |-> <<>>, exit |-> 0]
    /\ pc' = "done"
    /\ UNCHANGED <<args, fs, dirs, xbits, templates, now, variables, files_created,
                   templates_applied, domains_created, start, rerun, runs, edits,
                   readonly, v, verdict, substVars, envVars>>

\* the process has exited
Exit ==
    /\ pc = "done"
    /\ pc' = "idle"
    /\ args' = NoArgs
    /\ emitted' = NotEmitted
    /\ variables' = NoVariables
    /\ files_created' = <<>>
    /\ templates_applied' = <<>>
    /\ domains_created' = <<>>
    /\ start' = [fs |-> fs, dirs |-> dirs, xbits |-> xbits]
    /\ rerun' = FALSE
    /\ written' = FALSE
    /\ UNCHANGED <<fs, dirs, xbits, templates, now, runs, edits, readonly, v, verdict, substVars, envVars>>

\* between runs a developer edits (or creates) one of the project's files
HandEdit ==
    /\ pc = "idle"
    /\ edits < MaxEdits
    /\ ~readonly
    /\ \E p \in EditablePaths :
          /\ p \notin dirs
          /\ \A q \in Prefixes(Parent(p)) : q \notin DOMAIN fs
          /\ fs' = Put(fs, p, HandContent)
          /\ dirs' = dirs \cup Prefixes(Parent(p))
    /\ start' = [fs |-> fs', dirs |-> dirs', xbits |-> xbits]
    /\ edits' = edits + 1
    /\ UNCHANGED <<pc, args, emitted, xbits, templates, now, variables, files_created,
                   templates_applied, domains_created, rerun, written, runs, readonly,
                   v, verdict, substVars, envVars>>

\* files of a domain that a developer may delete between runs
DeletablePaths ==
    {Join(DomainPath("a"), <<"features", "index.ts">>),
     Join(DomainPath("a"), <<"hooks", "index.ts">>)}

\* between runs a developer deletes one of the project's files; its directory stays
HandDelete ==
    /\ pc = "idle"
    /\ edits < MaxEdits
    /\ ~readonly
    /\ \E p \in DeletablePaths \cap DOMAIN fs :
          fs' = [q \in DOMAIN fs \ {p} |-> fs[q]]
    /\ start' = [fs |-> fs', dirs |-> dirs, xbits |-> xbits]
    /\ edits' = edits + 1
    /\ UNCHANGED <<pc, args, emitted, dirs, xbits, templates, now, variables,
                   files_created, templates_applied, domains_created, rerun, written,
                   runs, readonly, v, verdict, substVars, envVars>>

\* between runs the project tree is made read-only
Protect ==
    /\ pc = "idle"
    /\ edits < MaxEdits
    /\ ~readonly
    /\ readonly' = TRUE
    /\ edits' = edits + 1
    /\ UNCHANGED <<pc, args, emitted, fs, dirs, xbits, templates, now, variables,
                   files_created, templates_applied, domains_created, start, rerun,
                   written, runs, v, verdict, substVars, envVars>>

Next ==
    \/ StartRun
    \/ Rerun
    \/ CreateDirectories
    \/ CreateDomainStructure
    \/ InjectArchitectureRules
    \/ InjectQualityTools
    \/ InjectAiContext
    \/ InjectDesignSystem
    \/ ApplyTemplates
    \/ Report
    \/ Exit
    \/ HandEdit
    \/ Protect

Spec == Init /\ [][Next]_vars

(***************************************************************************)
(* Specification of the runs whose inputs exercise the gates of main: any  *)
(* documents, approvers and domain mapping, run after run.                 *)
(***************************************************************************)
StartGateRun ==
    /\ pc = "idle"
    /\ \E a \in GateInputs : Begin(a, FALSE)

NextGates ==
    \/ StartGateRun
    \/ CreateDirectories
    \/ CreateDomainStructure
    \/ InjectArchitectureRules
    \/ InjectQualityTools
    \/ InjectAiContext
    \/ InjectDesignSystem
    \/ ApplyTemplates
    \/ Report
    \/ Exit

SpecGates == Init /\ [][NextGates]_vars

(***************************************************************************)
(* Specification of the runs whose inputs exercise the path resolution of  *)
(* apply_plan: any target path, listed file and directory key.             *)
(***************************************************************************)
StartPathRun ==
    /\ pc = "idle"
    /\ \E a \in PathInputs : Begin(a, FALSE)

NextPaths ==
    \/ StartPathRun
    \/ CreateDirectories
    \/ CreateDomainStructure
    \/ InjectArchitectureRules
    \/ InjectQualityTools
    \/ InjectAiContext
    \/ InjectDesignSystem
    \/ ApplyTemplates
    \/ Report
    \/ Exit

SpecPaths == Init /\ [][NextPaths]_vars

(***************************************************************************)
(* Specification of the runs over a project whose domain files a developer *)
(* deletes between runs: the domains of the plan vary.                     *)
(***************************************************************************)
StartGapRun ==
    /\ pc = "idle"
    /\ \E a \in DomainInputs : Begin(a, FALSE)

NextGaps ==
    \/ StartGapRun
    \/ CreateDirectories
    \/ CreateDomainStructure
    \/ InjectArchitectureRules
    \/ InjectQualityTools
    \/ InjectAiContext
    \/ InjectDesignSystem
    \/ ApplyTemplates
    \/ Report
    \/ Exit
    \/ HandDelete

SpecGaps == Init /\ [][NextGaps]_vars

(***************************************************************************)
(* Specification of the validators alone: a domain list is drawn, then     *)
(* validated.                                                              *)
(***************************************************************************)
InitGraph ==
    /\ v \in DomainLists
    /\ verdict = Pending
    /\ templates = <<>>
    /\ RunIdle
    /\ SubstIdle
    /\ EnvIdle

ValidateDomains ==
    /\ verdict = Pending
    /\ verdict' = DomainMapping(v)
    /\ UNCHANGED <<v, runVars, substVars, envVars>>

NextGraph == ValidateDomains

SpecGraph == InitGraph /\ [][NextGraph]_vars

(***************************************************************************)
(* The passes of substitute_variables as steps.                            *)
(***************************************************************************)
InitSubst ==
    /\ v = <<>>
    /\ verdict = Pending
    /\ templates = <<>>
    /\ RunIdle
    /\ \E i \in SubstInputs :
           /\ input = i.input
           /\ bindings = i.env
           /\ buffer = i.input.text
    /\ interpolated = <<>>
    /\ passes = 0
    /\ phase = "variables"
    /\ EnvIdle

\* l.197: content = re.sub(r"\{\{([A-Z_0-9]+)\}\}", replace_var, content)
ReplaceVariables ==
    /\ phase = "variables"
    /\ buffer' = sub_variables(buffer, bindings, 1)
    /\ interpolated' = buffer'
    /\ phase' = "conditionals"
    /\ UNCHANGED <<input, bindings, passes, graphVars, runVars, envVars>>

\* l.202-210: one iteration of the loop of process_conditionals
ConditionalPass ==
    /\ phase = "conditionals"
    /\ search(buffer)
    /\ buffer' = sub_conditionals(buffer, bindings, 1)
    /\ passes' = IF passes < MaxPasses THEN passes + 1 ELSE passes
    /\ UNCHANGED <<phase, input, bindings, interpolated, graphVars, runVars, envVars>>

\* l.202, l.211: re.search finds no block, the loop ends
ConditionalsDone ==
    /\ phase = "conditionals"
    /\ ~search(buffer)
    /\ phase' = "each"
    /\ UNCHANGED <<buffer, input, bindings, interpolated, passes, graphVars, runVars, envVars>>

\* l.239: content = process_each_domains(content), then return content
EachPass ==
    /\ phase = "each"
    /\ buffer' = process_each_domains(buffer, bindings)
    /\ phase' = "done"
    /\ UNCHANGED <<input, bindings, interpolated, passes, graphVars, runVars, envVars>>

NextSubst ==
    \/ ReplaceVariables
    \/ ConditionalPass
    \/ ConditionalsDone
    \/ EachPass

SpecSubst == InitSubst /\ [][NextSubst]_vars

\* the interpreter keeps running the function once it is called
SpecSubstFair == SpecSubst /\ WF_vars(NextSubst)

(***************************************************************************)
(* Specification of build_template_variables alone: a plan is drawn, then  *)
(* the function is called on it at times of the caller's choice.           *)
(***************************************************************************)
MaxAccents == 3
MaxClock == 3
MaxCalls == 2

Presets == {"creative", "corporate", "neutral", "custom"}
AccentColors == {"#ef4444", "#8b5cf6"}
AccentLists == UNION {[1..n -> AccentColors] : n \in 0..MaxAccents}

\* a design brief with or without a preset, with or without an accent list
DesignBriefs ==
    {DesignBrief(p, TRUE, a) : p \in Presets \cup {Missing}, a \in AccentLists}
        \cup {DesignBrief(p, FALSE, <<>>) : p \in Presets \cup {Missing}}

InitEnv ==
    /\ v = <<>>
    /\ verdict = Pending
    /\ templates = <<>>
    /\ RunIdle
    /\ SubstIdle
    /\ request \in {[BasePlan EXCEPT !.design_brief = b] : b \in DesignBriefs}
    /\ clock = 0
    /\ returned = <<>>

\* time passes between two calls
Tick ==
    /\ clock < MaxClock
    /\ clock' = clock + 1
    /\ UNCHANGED <<request, returned, graphVars, runVars, substVars>>

\* variables = build_template_variables(plan, prd, erd)
CallBuildTemplateVariables ==
    /\ Len(returned) < MaxCalls
    /\ returned' = Append(returned, build_template_variables(request, clock))
    /\ UNCHANGED <<request, clock, graphVars, runVars, substVars>>

NextEnv == Tick \/ CallBuildTemplateVariables

SpecEnv == InitEnv /\ [][NextEnv]_vars

(***************************************************************************)
(* The dependency relation as a graph, independent of the traversal.       *)
(***************************************************************************)
Edges(domains) ==
    UNION {{<<domains[i].name, d>> : d \in Range(domains[i].dependencies)} :
              i \in 1..Len(domains)}

Successors(domains, S) == {e[2] : e \in {f \in Edges(domains) : f[1] \in S}}

RECURSIVE Closure(_, _, _)

Closure(domains, S, k) ==
    IF k = 0 THEN S
    ELSE Closure(domains, S \cup Successors(domains, S), k - 1)

\* the names that n depends on, directly or transitively
DependsOn(domains, n) == Closure(domains, Successors(domains, {n}), Cardinality(Names))

OnCycle(domains, n) == n \in DependsOn(domains, n)

Acyclic(domains) == \A n \in Names : ~OnCycle(domains, n)

Decided == verdict # Pending

UniqueNames(domains) ==
    \A i, j \in 1..Len(domains) : i # j => domains[i].name # domains[j].name

\* C1: for a domain list with unique names, validation succeeds if and only
\* if the dependency graph has no cycle, whatever the order of the list.
C1_AcceptsIffAcyclic ==
    (Decided /\ UniqueNames(v)) => (verdict.ok <=> Acyclic(v))

\* a three-domain cycle a -> b -> c -> a, listed in any order, is rejected
C1_Witness ==
    /\ Decided /\ Len(v) = 3 /\ UniqueNames(v)
    /\ \A i \in 1..3 : Len(v[i].dependencies) = 1 /\ v[i].dependencies[1] # v[i].name
    /\ \A i \in 1..3 : DependsOn(v, v[i].name) = Range(NamesOf(v))
    /\ ~verdict.ok /\ verdict.error = "circular"

\* C2: when validation fails because of a cycle, the domain named in the
\* failure is itself on a dependency cycle (it transitively depends on itself).
C2_NamedDomainOnCycle ==
    (Decided /\ verdict.error = "circular") => OnCycle(v, verdict.domain)

\* C3: a domain list in which two domains carry the same name fails
\* validation, whatever the dependencies.
C3_DuplicateRejected ==
    (Decided /\ ~UniqueNames(v)) => ~verdict.ok

\* two domains of the same name and no dependency at all
C3_Witness ==
    /\ Decided /\ Len(v) = 2 /\ v[1].name = v[2].name
    /\ v[1].dependencies = <<>> /\ v[2].dependencies = <<>>
    /\ verdict.error = "unique"

\* C27: a domain list that passes validation is internally consistent: every
\* name in a dependencies list is the name of a domain of the list.
C27_DependenciesDeclared ==
    (Decided /\ verdict.ok) =>
        \A i \in 1..Len(v) :
            Range(v[i].dependencies) \subseteq Range(NamesOf(v))

(***************************************************************************)
(* Properties of a run.                                                    *)
(***************************************************************************)
InRun == pc # "idle"

Finished == pc = "done"

\* the part of the file system under the project root
FilesUnderRoot(f) == {p \in DOMAIN f : IsUnder(project_root, p)}

UnderRoot(w) ==
    [files |-> [p \in FilesUnderRoot(w.fs) |-> w.fs[p]],
     dirs |-> {d \in w.dirs : IsUnder(project_root, d)},
     xbits |-> {x \in w.xbits : IsUnder(project_root, x)}]

\* nothing under the project root was created or modified since the run started
RootUntouched == UnderRoot(World) = UnderRoot(start)

InvalidMapping(plan) == ~UniqueNames(plan.domains) \/ ~Acyclic(plan.domains)

DocumentsLoaded == args.prd.exists /\ args.erd.exists /\ args.plan.file = "ok"

NamesIdentical ==
    /\ args.prd.project_name = args.erd.project_name
    /\ args.erd.project_name = args.plan.project_name

\* the approver names supplied, surrounding blanks ignored
SuppliedApprovers == {strip(a) : a \in args.approved_by}

ApproverMissing == ~(REQUIRED_APPROVERS \subseteq SuppliedApprovers)

\* C4 as stated: if the plan's domain mapping has a duplicate name or a cyclic
\* dependency, the run ends with VALIDATION_FAILED and at no point of the run
\* has anything under the project root been created or modified.
C4_InvalidMappingValidationFailed ==
    (InRun /\ InvalidMapping(args.plan)) =>
        /\ RootUntouched
        /\ Finished => (emitted.kind = "error" /\ emitted.code = "VALIDATION_FAILED")

\* C4 amended: with such a mapping the run ends with an error, VALIDATION_FAILED
\* when the PRD and ERD documents could be loaded and FILE_NOT_FOUND when one
\* of them is missing, and at no point of the run has anything under the
\* project root been created or modified.
C4_InvalidMappingGatesMaterialization ==
    (InRun /\ InvalidMapping(args.plan)) =>
        /\ RootUntouched
        /\ Finished
        /\ Finished =>
              /\ emitted.kind = "error"
              /\ emitted.code = IF DocumentsLoaded THEN "VALIDATION_FAILED"
                                ELSE "FILE_NOT_FOUND"

\* a run with a cyclic mapping (fully approved) has ended with VALIDATION_FAILED
C4_Witness ==
    /\ Finished /\ DocumentsLoaded /\ ~ApproverMissing
    /\ UniqueNames(args.plan.domains) /\ ~Acyclic(args.plan.domains)
    /\ emitted.code = "VALIDATION_FAILED"
    /\ RootUntouched

\* C5: with otherwise valid, name-consistent inputs, a run in which a required
\* approver is not among the supplied approvers fails with APPROVAL_REQUIRED,
\* the message names exactly the missing approvers, and nothing under the
\* project root is created.
C5_ApprovalRequired ==
    (InRun /\ DocumentsLoaded /\ ~InvalidMapping(args.plan) /\ NamesIdentical
       /\ ApproverMissing) =>
        /\ RootUntouched
        /\ Finished
        /\ Finished =>
              /\ emitted.kind = "error"
              /\ emitted.code = "APPROVAL_REQUIRED"
              /\ Range(emitted.message) = REQUIRED_APPROVERS \ SuppliedApprovers
              /\ Len(emitted.message) = Cardinality(Range(emitted.message))

\* approvers Cynthia and Bob supplied: the run has failed naming Usama
C5_Witness ==
    /\ Finished /\ DocumentsLoaded /\ NamesIdentical /\ ~InvalidMapping(args.plan)
    /\ args.approved_by = {"Cynthia", "Bob"}
    /\ emitted.code = "APPROVAL_REQUIRED"
    /\ emitted.message = <<"Usama">>
    /\ RootUntouched

\* C6: if the project names of the PRD, the ERD and the plan are not all
\* identical the run fails with VALIDATION_FAILED, also when approvers are
\* missing, and nothing under the project root is written.
C6_InconsistentNamesValidationFailed ==
    (InRun /\ DocumentsLoaded /\ ~NamesIdentical) =>
        /\ RootUntouched
        /\ Finished
        /\ Finished => (emitted.kind = "error" /\ emitted.code = "VALIDATION_FAILED")

\* names Acme, Acme, Acme-Corp and no approver at all: VALIDATION_FAILED
C6_Witness ==
    /\ Finished /\ DocumentsLoaded
    /\ args.prd.project_name = "Acme" /\ args.erd.project_name = "Acme"
    /\ args.plan.project_name = "Acme-Corp"
    /\ args.approved_by = {}
    /\ emitted.code = "VALIDATION_FAILED"
    /\ RootUntouched

\* C7 as stated: the approval gate is evaluated before the domain graph is
\* validated, so a run with both a missing approver and a cyclic domain
\* dependency fails with APPROVAL_REQUIRED.
C7_ApprovalBeforeGraph ==
    (Finished /\ DocumentsLoaded /\ NamesIdentical /\ ApproverMissing
       /\ UniqueNames(args.plan.domains) /\ ~Acyclic(args.plan.domains)) =>
        emitted.code = "APPROVAL_REQUIRED"

\* C7 amended: the domain graph is validated first (as part of the validation
\* of the plan document), then the project names are compared, then the
\* approval gate is evaluated: a run with both a missing approver and a cyclic
\* domain dependency fails with VALIDATION_FAILED, reporting the plan
\* validation also when the project names differ.
C7_GraphBeforeApproval ==
    (Finished /\ DocumentsLoaded /\ ~Acyclic(args.plan.domains)) =>
        /\ emitted.kind = "error"
        /\ emitted.code = "VALIDATION_FAILED"
        /\ emitted.message = <<"Scaffold plan validation failed">>

\* a cyclic mapping and a missing approver: VALIDATION_FAILED
C7_Witness ==
    /\ Finished /\ DocumentsLoaded /\ NamesIdentical /\ ApproverMissing
    /\ UniqueNames(args.plan.domains) /\ ~Acyclic(args.plan.domains)
    /\ emitted.code = "VALIDATION_FAILED"

\* C8: no run changes the content of a file that already existed when the
\* run started.
C8_NonDestructiveWrite ==
    (InRun /\ ~args.dry_run) =>
        \A p \in DOMAIN start.fs : p \in DOMAIN fs /\ fs[p] = start.fs[p]

\* C9: applying the same plan a second time in non-dry-run mode, with the same
\* template sources and no edit in between, leaves every file with the
\* content it had after the first application.
C9_Idempotent ==
    (Finished /\ rerun /\ ~args.dry_run /\ emitted.kind = "result") => fs = start.fs

\* C10: a dry run leaves the file system under the project root unchanged: no
\* directory or file is created, no file rewritten, no permission bit changed.
C10_DryRunFrame ==
    (InRun /\ args.dry_run) => RootUntouched

\* a dry run over a project root that already holds files has gone through
\* every injection group and reported its result
C10_Witness ==
    /\ Finished /\ args.dry_run /\ emitted.kind = "result"
    /\ start.fs # <<>>
    /\ templates # <<>>
    /\ Len(templates_applied) = 5
    /\ RootUntouched

\* the report of apply_plan for the run's plan over an empty project root
Report_of(dry_run) ==
    apply_plan([fs |-> <<>>, dirs |-> {}, xbits |-> {}, readonly |-> FALSE, exc |-> ""],
               args.plan,
               templates, now, dry_run)

EmptyStart == start.fs = <<>> /\ start.dirs = {}

\* C11: over a project root with no pre-existing files, a dry run reports the
\* same counts and statuses as a real run of the same plan and templates: the
\* same per-domain files_created and directories_created and the same
\* files_created and status in every entry of templates_applied.
C11_DryRunReportsAsRealRun ==
    (Finished /\ args.dry_run /\ emitted.kind = "result" /\ EmptyStart) =>
        /\ domains_created = Report_of(FALSE).domains_created
        /\ templates_applied = Report_of(FALSE).templates_applied

\* C12: every run ends in exactly one of two outcomes: the result document is
\* written and emitted with exit status 0, or one structured error object is
\* emitted with a non-zero exit status and no result document is written; also
\* when the plan file is missing or is not valid JSON.
C12_ResultOrErrorObject ==
    Finished =>
        \/ emitted.kind = "result" /\ emitted.exit = 0 /\ written
        \/ emitted.kind = "error" /\ emitted.exit # 0 /\ ~written

PassedGates == DocumentsLoaded /\ ~InvalidMapping(args.plan) /\ NamesIdentical /\ ~ApproverMissing

\* C13: APPROVAL_REQUIRED is emitted only when a required approver is missing,
\* FILE_NOT_FOUND only when an input document is missing, and any failure
\* raised while materializing is reported as SCAFFOLD_FAILED.
C13_ErrorTaxonomy ==
    (Finished /\ emitted.kind = "error") =>
        /\ emitted.code = "APPROVAL_REQUIRED" => ApproverMissing
        /\ emitted.code = "FILE_NOT_FOUND" =>
               ~args.prd.exists \/ ~args.erd.exists \/ args.plan.file = "missing"
        /\ PassedGates => emitted.code = "SCAFFOLD_FAILED"

(***************************************************************************)
(* Properties of substitute_variables (under SpecSubst).                   *)
(***************************************************************************)
Substituted == phase = "done"

\* text[i..k] reads {{NAME}}
IsPlaceholder(text, i, k) ==
    /\ text[i] = OpenVar
    /\ k > i + 1
    /\ text[k] = CloseBraces
    /\ \A j \in (i + 1)..(k - 1) : text[j] \in VariableNames

IsAbsentPlaceholder(text, i, k) ==
    /\ IsPlaceholder(text, i, k)
    /\ ~(k = i + 2 /\ text[i + 1] \in DOMAIN bindings)

\* the names of the placeholders of a text that the environment does not hold,
\* in the order of the text
AbsentNames(text) ==
    LET starts == SelectSeq([i \in 1..Len(text) |-> i],
                            LAMBDA i : \E k \in 1..Len(text) : IsAbsentPlaceholder(text, i, k))
    IN  [j \in 1..Len(starts) |->
            SubSeq(text, starts[j] + 1,
                   (CHOOSE k \in 1..Len(text) : IsAbsentPlaceholder(text, starts[j], k)) - 1)]

Occurring(names) == {names[j] : j \in 1..Len(names)}

\* no {{#if or {{#each domains}} opener in the text
NoOpener(text) == \A i \in 1..Len(text) : text[i] \notin {OpenIf, OpenEach}

C15_NoConditionalMarkerLeft ==
    (Substituted /\ input.kind = "nested") =>
        \A i \in 1..Len(buffer) : buffer[i] \notin {OpenIf, EndIf}

OuterWinsExample == Render(Chain(<<"A", "B">>))

\* C16: {{#if A}}x{{#if B}}y{{/if}}z{{/if}} with A falsy and B truthy expands to
\* the empty string.
C16_OuterWins ==
    (/\ Substituted
     /\ input.text = OuterWinsExample
     /\ "A" \notin DOMAIN bindings
     /\ "B" \in DOMAIN bindings /\ bindings["B"] = Str(<<"v">>)) => buffer = <<>>

\* C17: the loop of process_conditionals terminates for every text and every
\* environment: a call that has entered the loop leaves it.
C17_ConditionalLoopTerminates == (phase = "conditionals") ~> (phase = "each")

\* the loop has ended after a second iteration resolved a block whose opening
\* marker the first iteration formed by removing the block inside it
C17_Witness ==
    /\ phase = "each"
    /\ input.kind = "join"
    /\ input.text[1] = OpenIf
    /\ ~IfMatch(input.text, 1)
    /\ passes >= 2
    /\ \A i \in 1..Len(buffer) : buffer[i] # OpenIf

\* the names of a dependency list separated by ", ", the literal None for none
DependencyList(names) ==
    IF names = <<>> THEN <<"None">>
    ELSE [j \in 1..(2 * Len(names) - 1) |-> IF j % 2 = 1 THEN names[(j + 1) \div 2] ELSE ", "]

\* one instantiation of a block body for one domain record
RECURSIVE Instantiation(_, _)
Instantiation(body, domain) ==
    IF body = <<>> THEN <<>>
    ELSE (CASE Head(body) = ItemName -> <<domain.name>>
            [] Head(body) = ItemDependencies -> DependencyList(domain.dependencies)
            [] OTHER -> <<Head(body)>>) \o Instantiation(Tail(body), domain)

\* the instantiations of a body for the records i, i + 1, ... of the list, one
\* after the other
RECURSIVE Instantiations(_, _, _)
Instantiations(body, domains, i) ==
    IF i > Len(domains) THEN <<>>
    ELSE Instantiation(body, domains[i]) \o Instantiations(body, domains, i + 1)

\* the text a sequence of plain segments and each blocks expands to
RECURSIVE Expansion(_, _)
Expansion(shape, domains) ==
    IF shape = <<>> THEN <<>>
    ELSE (IF Head(shape).each THEN Instantiations(Head(shape).text, domains, 1)
          ELSE Head(shape).text) \o Expansion(Tail(shape), domains)

\* C18: each {{#each domains}}...{{/each}} block expands to the concatenation,
\* in list order and with no separator, of one instantiation of its body per
\* domain record (none for an empty list), {{dependencies}} being rendered as
\* None for a domain without dependencies; the text around the blocks is kept.
C18_EachBlockExpansion ==
    (Substituted /\ input.kind = "each") =>
        buffer = Expansion(input.shape, bindings["domains"])

\* a text with two blocks has been expanded over three domain records, the
\* first of them without dependencies
C18_Witness ==
    /\ Substituted
    /\ input.kind = "each"
    /\ \E i, j \in 1..Len(input.shape) :
           i < j /\ input.shape[i].each /\ input.shape[j].each
    /\ Len(bindings["domains"]) = MaxEachDomains
    /\ bindings["domains"][1].dependencies = <<>>
    /\ bindings["domains"][2].dependencies # <<>>
    /\ buffer # <<>>

\* the environment holds a truthy value under the name: a non-empty string, a
\* non-zero number or true
Holds(name) ==
    /\ name \in DOMAIN bindings
    /\ bindings[name] \notin {None, Str(<<>>), Bool(FALSE), Integer(0)}

\* the reference evaluator: a block contributes its whole body, evaluated the
\* same way, when its variable is truthy, and nothing otherwise
RECURSIVE Evaluate(_)
Evaluate(tree) ==
    IF tree = <<>> THEN <<>>
    ELSE (IF Head(tree).if
          THEN (IF Holds(Head(tree).name) THEN Evaluate(Head(tree).body) ELSE <<>>)
          ELSE <<Head(tree).tok>>) \o Evaluate(Tail(tree))

\* C20: for every well-nested template and environment the output equals that
\* of the reference tree evaluator.
C20_NestedAsTree ==
    (Substituted /\ input.kind = "nested") => buffer = Evaluate(input.tree)

(***************************************************************************)
(* Properties of the injection toggles (under Spec).                       *)
(***************************************************************************)
EslintTarget == Join(project_root, <<".eslintrc.js">>)

\* the run created the file: it exists now and did not when the run started
CreatedByRun(path) == path \in DOMAIN fs /\ path \notin DOMAIN start.fs

\* the run reports the injection group among the templates it applied
GroupRan(template_id) ==
    \E i \in 1..Len(templates_applied) : templates_applied[i].template_id = template_id

\* C19: each injection toggle of the result is true exactly when the injection
\* ran in that run; with inject_husky false the commit-hook script is not
\* written, with inject_eslint_config false the lint configuration is not
\* written, whatever the other toggle.
C19_TogglesReflectInjections ==
    (/\ Finished
     /\ emitted.kind = "result"
     /\ ~args.dry_run
     /\ EmptyStart
     /\ templates # <<>>) =>
        /\ Report_of(FALSE).architecture_rules_injected <=> GroupRan("ARCH-RULES")
        /\ Report_of(FALSE).design_system_injected <=> GroupRan("DESIGN-SYSTEM")
        /\ Report_of(FALSE).husky_configured <=> CreatedByRun(HuskyTarget)
        /\ Report_of(FALSE).eslint_configured <=> CreatedByRun(EslintTarget)

(***************************************************************************)
(* Properties of build_template_variables (under SpecEnv).                 *)
(***************************************************************************)
\* C21: two calls of build_template_variables with the same plan, PRD and ERD,
\* made at different times, return environments equal in every variable.
C21_EnvironmentIsPure ==
    \A i, j \in 1..Len(returned) : returned[i] = returned[j]

\* C22: when the plan's design brief gives no preset, DESIGN_PRESET is "neutral".
C22_MissingPresetIsNeutral ==
    \A i \in 1..Len(returned) :
        request.design_brief.preset = Missing =>
            returned[i].DESIGN_PRESET = Str(<<"neutral">>)

GivenAccents ==
    IF request.design_brief.accent.given THEN request.design_brief.accent.list ELSE <<>>

\* C23: with exactly one accent color ACCENT_COLOR_2 is that color, as is
\* ACCENT_COLOR_1; with two or more they are the first and the second.
C23_AccentFallsBackToFirst ==
    \A i \in 1..Len(returned) :
        /\ Len(GivenAccents) = 1 =>
               /\ returned[i].ACCENT_COLOR_1 = Str(<<GivenAccents[1]>>)
               /\ returned[i].ACCENT_COLOR_2 = Str(<<GivenAccents[1]>>)
        /\ Len(GivenAccents) >= 2 =>
               /\ returned[i].ACCENT_COLOR_1 = Str(<<GivenAccents[1]>>)
               /\ returned[i].ACCENT_COLOR_2 = Str(<<GivenAccents[2]>>)

(***************************************************************************)
(* Properties of the ad-hoc template groups (under Spec).                  *)
(***************************************************************************)
Succeeded == Finished /\ emitted.kind = "result"

AdHocGroups == 1..Len(args.plan.templates_to_apply)

\* the entry the run reports for the k-th group of templates_to_apply
AdHocEntry(k) ==
    CHOOSE e \in {templates_applied[i] : i \in 1..Len(templates_applied)} :
        e.template_id = args.plan.templates_to_apply[k].id

\* where the run puts the i-th declared file of the k-th group
DeclaredFile(k, i) ==
    ResolveUnder(project_root,
                 full_path(args.plan.templates_to_apply[k].target_path,
                           args.plan.templates_to_apply[k].files_to_generate[i]))

DeclaredFiles(k) == 1..Len(args.plan.templates_to_apply[k].files_to_generate)

\* C24: a group's status is "success" exactly when every file it declares was
\* materialized by the run, "partial" otherwise; after a run without --dry-run
\* that raised nothing every status is "success" and every count is the number
\* of declared files.
C24_StatusReflectsMaterialization ==
    Succeeded =>
        \A k \in AdHocGroups :
            /\ AdHocEntry(k).status \in {"success", "partial"}
            /\ AdHocEntry(k).status = "success" <=>
                   \A i \in DeclaredFiles(k) : CreatedByRun(DeclaredFile(k, i))
            /\ ~args.dry_run =>
                   /\ AdHocEntry(k).status = "success"
                   /\ AdHocEntry(k).files_created = Cardinality(DeclaredFiles(k))

\* C28: every entry of files_created is a file the run wrote: no file that
\* existed before the run started is listed, or counted by an ad-hoc group.
C28_FilesCreatedWereWritten ==
    Succeeded =>
        /\ \A i \in 1..Len(files_created) :
               /\ files_created[i].path \in DOMAIN fs
               /\ files_created[i].path \notin DOMAIN start.fs
        /\ \A k \in AdHocGroups :
               AdHocEntry(k).files_created
                   = Cardinality({i \in DeclaredFiles(k) : CreatedByRun(DeclaredFile(k, i))})

\* the segments of a path string
Segments(s) == Split(s, <<>>, <<>>)

\* the group's target directory: the target path with its leading and
\* trailing separators stripped, under the project root
TargetDirectory(k) ==
    ResolveFrom(project_root, Segments(args.plan.templates_to_apply[k].target_path))

IsRelative(s) == s = <<>> \/ Head(s) # Sep

\* target/relative, or the relative path alone when its first segments are
\* the segments of the target path
ExpectedLocation(k, i) ==
    LET target == Segments(args.plan.templates_to_apply[k].target_path)
        relative == Segments(args.plan.templates_to_apply[k].files_to_generate[i])
    IN  IF startswith(relative, target) THEN ResolveFrom(project_root, relative)
        ELSE ResolveFrom(project_root, target \o relative)

\* C25: a listed relative file is written at target/relative unless its first
\* path segments are already the target path, in which case it is written at the
\* relative path; every generated file lies under its group's target directory.
C25_AdHocPathResolution ==
    (Succeeded /\ ~args.dry_run) =>
        /\ \A k \in AdHocGroups : \A i \in DeclaredFiles(k) :
               IsRelative(args.plan.templates_to_apply[k].files_to_generate[i]) =>
                   ExpectedLocation(k, i) \in DOMAIN fs
        /\ \A j \in 1..Len(files_created) :
               \E k \in AdHocGroups : IsUnder(TargetDirectory(k), files_created[j].path)

\* C26: every directory and file a run creates or writes lies inside the
\* project root, whatever the directory_structure keys and files_to_generate
\* entries of the plan.
C26_WriteConfinement ==
    /\ \A p \in DOMAIN fs :
           (p \notin DOMAIN start.fs \/ fs[p] # start.fs[p]) => IsUnder(project_root, p)
    /\ \A d \in dirs \ start.dirs : IsUnder(project_root, d)

\* a value that no pass can take for a marker
Opaque == "<value>"

\* the output for the same text when the value of A is opaque, with the value
\* of A put in its place afterwards
OutputAroundValue ==
    replace(substitute_variables(input.text, [bindings EXCEPT !["A"] = Str(<<Opaque>>)]),
            Opaque, bindings["A"].s)

\* C29: the value inserted for a {{VAR}} placeholder is never interpreted as
\* template markup: it appears verbatim in the output, and the parts of the
\* surrounding template that are kept are those kept for any other value.
C29_InterpolatedValuesInert ==
    (Substituted /\ input.kind = "inert") => buffer = OutputAroundValue

DomainSubDirectories == {"components", "constants", "hooks", "features"}

\* the domain has its four sub-directories, and an index.ts in its directory
\* and in each of them
DomainComplete(domain_name) ==
    /\ Append(DomainPath(domain_name), <<"index.ts">>) \in DOMAIN fs
    /\ \A sub \in DomainSubDirectories :
           /\ Append(DomainPath(domain_name), <<sub>>) \in dirs
           /\ Join(DomainPath(domain_name), <<sub, "index.ts">>) \in DOMAIN fs

\* C30: after a successful run without --dry-run, whatever files of the domain
\* existed before it, every domain of the plan has its four sub-directories
\* and its five index.ts files.
C30_DomainGapsFilled ==
    (Succeeded /\ ~args.dry_run) =>
        \A i \in 1..Len(args.plan.domains) : DomainComplete(args.plan.domains[i].name)

====
